---- MODULE Spec2Model ----
(***************************************************************************)
(* click_completion_zsh: rendering of a click command tree into a zsh      *)
(* completion script (quote, get_help, complete_type, complete_command,    *)
(* complete) and the run-time type lookup (find_param_type).               *)
(*                                                                         *)
(* A Python str is a sequence of one-character strings, so that escaping   *)
(* and re-parsing are computed character by character.  Python's None is   *)
(* the one-element sequence None, which no str equals.                     *)
(***************************************************************************)
EXTENDS Integers, Sequences, FiniteSets, TLC

VARIABLES
    value, embed, double, quoted, reparsed, qpc,      \* a call of quote
    hparam, hresult, hpc,                             \* a call of get_help
    info, stack, lines, script, raised, cpc,          \* a call of complete
    tree, fname, fstack, fresult, fpc                 \* a call of find_param_type

qvars == <<value, embed, double, quoted, reparsed, qpc>>
hvars == <<hparam, hresult, hpc>>
cvars == <<info, stack, lines, script, raised, cpc>>
fvars == <<tree, fname, fstack, fresult, fpc>>
vars == <<qvars, hvars, cvars, fvars>>

----------------------------------------------------------------------------
(* Bounds of the explored inputs. *)

\* longest str handed to quote
MaxLen == 3

\* longest help and short_help text handed to get_help
MaxHelpLen == 2

\* most parameters of the root command
MaxParams == 2

\* most parameters of one command searched by find_param_type
FMaxParams == 1

----------------------------------------------------------------------------
(* Values. *)

None == <<"<None>">>

SQ == "'"
DQ == "\""
BS == "\\"
NL == "\n"
\* the backquote, which a TLA+ string cannot hold
BQ == "backquote"

\* the character class [A-Za-z0-9_+-]
UpperCase ==
    <<"A", "B", "C", "D", "E", "F", "G", "H", "I", "J", "K", "L", "M",
      "N", "O", "P", "Q", "R", "S", "T", "U", "V", "W", "X", "Y", "Z">>
LowerCase ==
    <<"a", "b", "c", "d", "e", "f", "g", "h", "i", "j", "k", "l", "m",
      "n", "o", "p", "q", "r", "s", "t", "u", "v", "w", "x", "y", "z">>
Digits ==
    <<"0", "1", "2", "3", "4", "5", "6", "7", "8", "9">>

Range(s) == {s[i] : i \in 1..Len(s)}

WordChars == Range(UpperCase) \cup Range(LowerCase) \cup Range(Digits) \cup {"_", "+", "-"}

\* ' '.join(parts), and the other separators
RECURSIVE Join(_, _)
Join(sep, parts) ==
    IF parts = <<>> THEN <<>>
    ELSE IF Len(parts) = 1 THEN parts[1]
    ELSE parts[1] \o sep \o Join(sep, Tail(parts))

\* [x] * count
Repeat(x, count) == [i \in 1..(IF count > 0 THEN count ELSE 0) |-> x]

----------------------------------------------------------------------------
(* quote *)

\* match('^[A-Za-z0-9_+-]*$', value): $ also matches before a final newline
Match(v) ==
    \/ \A i \in 1..Len(v) : v[i] \in WordChars
    \/ /\ Len(v) > 0
       /\ v[Len(v)] = NL
       /\ \A i \in 1..(Len(v) - 1) : v[i] \in WordChars

\* the character class of the pattern: bang, dollar, backslash, double quote, backquote
DoubleSpecials == {"!", "$", BS, DQ, BQ}

\* sub(pattern, backslash + the matched character, value)
EscapeDouble(v) ==
    LET f[i \in 0..Len(v)] ==
            IF i = 0 THEN <<>>
            ELSE f[i - 1] \o (IF v[i] \in DoubleSpecials THEN <<BS, v[i]>> ELSE <<v[i]>>)
    IN  f[Len(v)]

\* value.replace(apostrophe, apostrophe backslash apostrophe apostrophe)
EscapeSingle(v) ==
    LET f[i \in 0..Len(v)] ==
            IF i = 0 THEN <<>>
            ELSE f[i - 1] \o (IF v[i] = SQ THEN <<SQ, BS, SQ, SQ>> ELSE <<v[i]>>)
    IN  f[Len(v)]

\* a plausible slip: the backslash is left out of the escaped class
QuoteNoBackslash(v, emb, dbl) ==
    IF Match(v) THEN v
    ELSE LET body == IF dbl
                     THEN LET f[i \in 0..Len(v)] ==
                                  IF i = 0 THEN <<>>
                                  ELSE f[i - 1] \o (IF v[i] \in DoubleSpecials \ {BS}
                                                    THEN <<BS, v[i]>> ELSE <<v[i]>>)
                          IN  f[Len(v)]
                     ELSE EscapeSingle(v)
             q == IF dbl THEN DQ ELSE SQ
         IN  IF emb THEN body ELSE <<q>> \o body \o <<q>>

Quote(v, emb, dbl) ==
    IF Match(v) THEN v
    ELSE LET body == IF dbl THEN EscapeDouble(v) ELSE EscapeSingle(v)
             q == IF dbl THEN DQ ELSE SQ
         IN  IF emb THEN body ELSE <<q>> \o body \o <<q>>

(* The shell's reading of one word.  Outside quotes a backslash makes the   *)
(* next character literal, and an unquoted blank or expansion character    *)
(* does not belong to the word.  Between apostrophes every character is literal. *)
(* Between double quotes a backslash is removed before a character of      *)
(* DoubleSpecials and kept                                                  *)
(* before anything else.  A word that ends inside a quote is Malformed.     *)
Malformed == <<"<Malformed>">>

\* outside quotes these end the word or start an expansion
BareSpecials == {" ", NL, "$", BQ, "!"}

RECURSIVE Unquote(_, _, _, _)
Unquote(w, i, mode, acc) ==
    IF i > Len(w) THEN (IF mode = "bare" THEN acc ELSE Malformed)
    ELSE IF mode = "bare" THEN
        IF w[i] = SQ THEN Unquote(w, i + 1, "single", acc)
        ELSE IF w[i] = DQ THEN Unquote(w, i + 1, "double", acc)
        ELSE IF w[i] = BS THEN
            IF i = Len(w) THEN Malformed
            ELSE Unquote(w, i + 2, "bare", Append(acc, w[i + 1]))
        ELSE IF w[i] \in BareSpecials THEN Malformed
        ELSE Unquote(w, i + 1, "bare", Append(acc, w[i]))
    ELSE IF mode = "single" THEN
        IF w[i] = SQ THEN Unquote(w, i + 1, "bare", acc)
        ELSE Unquote(w, i + 1, "single", Append(acc, w[i]))
    ELSE
        IF w[i] = DQ THEN Unquote(w, i + 1, "bare", acc)
        ELSE IF w[i] = BS /\ i < Len(w) /\ w[i + 1] \in DoubleSpecials
            THEN Unquote(w, i + 2, "double", Append(acc, w[i + 1]))
        ELSE Unquote(w, i + 1, "double", Append(acc, w[i]))

\* the characters quote is called with
QuoteAlphabet == {"a", "7", "_", "+", "-", " ", SQ, DQ, BS, "$", BQ, "!", NL}

RECURSIVE StringsUpTo(_, _)
StringsUpTo(alphabet, n) ==
    IF n = 0 THEN {<<>>}
    ELSE LET shorter == StringsUpTo(alphabet, n - 1)
         IN  shorter \cup {Append(s, c) : s \in {t \in shorter : Len(t) = n - 1}, c \in alphabet}

QuoteIdle ==
    /\ value = <<>> /\ embed = FALSE /\ double = FALSE
    /\ quoted = None /\ reparsed = None /\ qpc = "idle"

QuoteInit ==
    /\ value \in StringsUpTo(QuoteAlphabet, MaxLen)
    /\ embed \in BOOLEAN
    /\ double \in BOOLEAN
    /\ quoted = None
    /\ reparsed = None
    /\ qpc = "call"

\* quote(value, embed, double) returns
QuoteCall ==
    /\ qpc = "call"
    /\ quoted' = Quote(value, embed, double)
    /\ qpc' = "returned"
    /\ UNCHANGED <<value, embed, double, reparsed>>

\* the shell reads the returned word back
ShellRead ==
    /\ qpc = "returned"
    /\ reparsed' = Unquote(quoted, 1, "bare", <<>>)
    /\ qpc' = "read"
    /\ UNCHANGED <<value, embed, double, quoted>>

----------------------------------------------------------------------------
(* get_help *)

\* param.get(key)
Get(param, key) == IF key \in DOMAIN param THEN param[key] ELSE None

\* help.rstrip('.')
RECURSIVE RStripDot(_)
RStripDot(s) ==
    IF s # <<>> /\ s[Len(s)] = "." THEN RStripDot(SubSeq(s, 1, Len(s) - 1)) ELSE s

\* help.split(' ')[0]
FirstWord(s) ==
    LET spaces == {i \in 1..Len(s) : s[i] = " "}
    IN  IF spaces = {} THEN s
        ELSE SubSeq(s, 1, (CHOOSE i \in spaces : \A j \in spaces : i <= j) - 1)

\* c.isupper() and c.lower(), for the ASCII letters
IsUpper(c) == c \in Range(UpperCase)
Lower(c) ==
    IF IsUpper(c) THEN LowerCase[CHOOSE i \in 1..Len(UpperCase) : UpperCase[i] = c] ELSE c

HelpUsage ==
    <<"d", "i", "s", "p", "l", "a", "y", " ", "u", "s", "a", "g", "e", " ",
      "i", "n", "f", "o", "r", "m", "a", "t", "i", "o", "n">>

HelpName == <<"h", "e", "l", "p">>

\* help[0] of an empty str
IndexError == <<"<IndexError>">>

\* lines 51-56: the text of any other parameter
Normalise(text) ==
    LET help == RStripDot(text)
        first_word == FirstWord(help)
    IN  IF \A i \in 2..Len(first_word) : ~IsUpper(first_word[i])
        THEN IF help = <<>> THEN IndexError
             ELSE <<Lower(help[1])>> \o SubSeq(help, 2, Len(help))
        ELSE help

\* a plausible slip: the parameter named help is treated like any other
GetHelpNoSpecialCase(param) ==
    LET short == Get(param, "short_help")
        help == IF short = None THEN Get(param, "help") ELSE short
    IN  IF help = None THEN None ELSE Normalise(help)

GetHelp(param) ==
    LET short == Get(param, "short_help")
        help == IF short = None THEN Get(param, "help") ELSE short
    IN  IF help = None THEN None
        ELSE IF param.name = HelpName THEN HelpUsage
        ELSE Normalise(help)

\* the characters of the help texts handed to get_help
HelpAlphabet == {"A", "b", " ", "."}

HelpTexts == {None} \cup StringsUpTo(HelpAlphabet, MaxHelpLen)

HelpIdle ==
    /\ hparam = [name |-> <<>>] /\ hresult = None /\ hpc = "idle"

HelpInit ==
    /\ hparam \in
         {[name |-> n, help |-> h, short_help |-> sh] :
             n \in {HelpName, <<"f", "o", "o">>}, h \in HelpTexts, sh \in HelpTexts}
         \cup {[name |-> n, help |-> h] : n \in {HelpName, <<"f", "o", "o">>}, h \in HelpTexts}
         \cup {[name |-> n] : n \in {HelpName, <<"f", "o", "o">>}}
    /\ hresult = None
    /\ hpc = "call"

\* get_help(param) returns, or raises IndexError
GetHelpCall ==
    /\ hpc = "call"
    /\ hresult' = GetHelp(hparam)
    /\ hpc' = IF hresult' = IndexError THEN "raised" ELSE "returned"
    /\ UNCHANGED hparam

----------------------------------------------------------------------------
(* complete_type *)

\* str(n) of an int, as an f-string formats it
RECURSIVE NatStr(_)
NatStr(n) == IF n < 10 THEN <<Digits[n + 1]>> ELSE NatStr(n \div 10) \o <<Digits[(n % 10) + 1]>>
Str(n) == IF n < 0 THEN <<"-">> \o NatStr(-n) ELSE NatStr(n)

BoolAction ==
    <<"(", "0", " ", "1", " ", "f", "a", "l", "s", "e", " ", "t", "r", "u",
      "e", " ", "f", " ", "t", " ", "n", "o", " ", "y", "e", "s", " ", "n",
      " ", "y", " ", "o", "f", "f", " ", "o", "n", ")">>
FilesAction == <<"_", "f", "i", "l", "e", "s">>
DirsFlag == <<" ", "-", "/">>
NumbersAction == <<"_", "n", "u", "m", "b", "e", "r", "s">>
FloatFlag == <<" ", "-", "f">>
DefaultFlag == <<" ", "-", "d", " ">>
LowerFlag == <<" ", "-", "l", " ">>
UpperFlag == <<" ", "-", "m", " ">>

\* lines 176-180: the display name, without one trailing _, and the default
Message(name, default) ==
    LET message == IF name[Len(name)] = "_" THEN SubSeq(name, 1, Len(name) - 1) ELSE name
    IN  IF default # None THEN message \o <<" ", "[">> \o default \o <<"]">> ELSE message

(* lines 195-212.  min and max are Optional numbers: the empty sequence for *)
(* None, a one-element sequence for a number.                               *)
NumbersSpec(param, name, default) ==
    LET param_type == param.param_type
        a1 == NumbersAction \o (IF param_type = "FloatRange" THEN FloatFlag ELSE <<>>)
        a2 == a1 \o (IF default # None THEN DefaultFlag \o default ELSE <<>>)
        min_value == IF param_type = "IntRange" /\ param.min_open
                     THEN param.min[1] + 1 ELSE param.min[1]
        a3 == a2 \o (IF param.min # <<>> THEN LowerFlag \o Str(min_value) ELSE <<>>)
        max_value == IF param_type = "IntRange" /\ param.max_open
                     THEN param.max[1] - 1 ELSE param.max[1]
        a4 == a3 \o (IF param.max # <<>> THEN UpperFlag \o Str(max_value) ELSE <<>>)
        action == a4 \o <<" ">> \o Quote(name, FALSE, TRUE)
    IN  <<":", " ", ":">> \o action

RECURSIVE CompleteType(_, _, _)
CompleteType(param, name, default) ==
    LET param_type == param.param_type
        message == Message(name, default)
    IN  IF param_type = "Bool" THEN
            <<":">> \o message \o <<":">> \o BoolAction
        ELSE IF param_type = "Choice" THEN
            <<":">> \o message \o <<":", "(">>
                \o Join(<<" ">>, [c \in 1..Len(param.choices) |->
                                     Quote(param.choices[c], FALSE, TRUE)])
                \o <<")">>
        ELSE IF param_type = "File" THEN
            <<":">> \o message \o <<":">> \o FilesAction
        ELSE IF param_type = "Path" THEN
            LET only_dirs == param.file_okay = FALSE /\ param.dir_okay = TRUE
            IN  <<":">> \o message \o <<":">> \o FilesAction
                    \o (IF only_dirs THEN DirsFlag ELSE <<>>)
        ELSE IF param_type \in {"IntRange", "FloatRange"} THEN
            NumbersSpec(param, name, default)
        ELSE IF param_type = "Tuple" THEN
            Join(<<" ">>, [a \in 1..Len(param.types) |->
                              CompleteType(param.types[a], name, None)])
        ELSE
            <<":">> \o message \o <<":">>

----------------------------------------------------------------------------
(* complete_command: what one parameter contributes *)

\* a plausible slip: a Tuple's fragments are repeated nargs times like any other
OptionValueCountNargs(param) == param.nargs

\* line 116
OptionValueCount(param) ==
    IF param.type.param_type = "Tuple" THEN 1 ELSE param.nargs

\* lines 113-117: the value fragments of an option
OptionValues(param) ==
    IF ~(param.is_flag \/ param.count)
    THEN LET argspec == CompleteType(param.type, param.name, param.default)
         IN  Join(<<" ">>, Repeat(argspec, OptionValueCount(param)))
    ELSE <<>>

\* lines 98-108: the exclusion group or repeat marker, and the names
OptionNames(param) ==
    LET all_names == param.opts \o param.secondary_opts
        prefix == IF param.multiple \/ param.count THEN <<"*">>
                  ELSE IF Len(all_names) > 1
                  THEN <<"(">> \o Join(<<" ">>, [o \in 1..Len(all_names) |->
                                                    Quote(all_names[o], TRUE, FALSE)])
                           \o <<")">>
                  ELSE <<>>
    IN  IF Len(all_names) = 1 THEN prefix \o Quote(all_names[1], TRUE, FALSE)
        ELSE prefix \o <<SQ, "{">>
                 \o Join(<<",">>, [o \in 1..Len(all_names) |->
                                      Quote(all_names[o], FALSE, FALSE)])
                 \o <<"}", SQ>>

\* lines 110-112: the bracket annotation
OptionHelp(help) ==
    IF help # None THEN <<"[">> \o Quote(help, TRUE, FALSE) \o <<"]">> ELSE <<>>

\* lines 96-119: the spec of an option, or the IndexError of get_help
OptionSpec(param) ==
    LET help == GetHelp(param)
    IN  IF help = IndexError THEN IndexError
        ELSE <<SQ>> \o OptionNames(param) \o OptionHelp(help) \o OptionValues(param) \o <<SQ>>

\* lines 127-132: the spec of an argument that is not skipped
ArgumentSpec(param) ==
    <<SQ>> \o (IF param.nargs = -1 THEN <<"*">> ELSE <<>>)
           \o CompleteType(param.type, param.name, param.default) \o <<SQ>>

\* lines 133-134
ArgumentSpecs(param) ==
    Repeat(ArgumentSpec(param), IF param.nargs = -1 THEN 1 ELSE param.nargs)

----------------------------------------------------------------------------
(* complete_command and complete: one frame per call of complete_command *)

ArgumentsLine == <<"_", "a", "r", "g", "u", "m", "e", "n", "t", "s", " ",
                   "-", "s", " ", "-", "S">>
RestrictFlag == <<" ", "-", "A", " ", SQ, "-", "*", SQ>>
GroupFlag == <<" ", "-", "C">>
LineEnd == <<" ", ":", " ", BS>>
Continuation == <<" ", BS>>
SubcommandOpen == <<SQ, ":", "s", "u", "b", "c", "o", "m", "m", "a", "n",
                    "d", ":", "(", "(">>
SubcommandClose == <<")", ")", SQ>>
CatchAllSpec == <<SQ, "*", ":", ":", ":", " ", ":", "=", " ", "-", ">",
                  "s", "u", "b", "c", "m", "d", SQ, " ", "&", "&", " ",
                  "r", "e", "t", "u", "r", "n", " ", "0">>
ServiceOpen == <<"s", "e", "r", "v", "i", "c", "e", "=", "$", "l", "i",
                 "n", "e", "[">>
CurcontextLine == <<"c", "u", "r", "c", "o", "n", "t", "e", "x", "t", "=",
                    "$", "{", "c", "u", "r", "c", "o", "n", "t", "e", "x",
                    "t", "%", ":", "*", "}", "-", "$", "s", "e", "r", "v",
                    "i", "c", "e", ":">>
CaseLine == <<"c", "a", "s", "e", " ", "$", "s", "e", "r", "v", "i", "c",
              "e", " ", "i", "n">>
CaseEnd == <<" ", " ", ";", ";">>
EsacLine == <<"e", "s", "a", "c">>
CompdefOpen == <<"#", "c", "o", "m", "p", "d", "e", "f", " ">>
LocalLine ==
    <<"l", "o", "c", "a", "l", " ", "c", "u", "r", "c", "o", "n", "t", "e",
      "x", "t", "=", DQ, "$", "c", "u", "r", "c", "o", "n", "t", "e", "x",
      "t", DQ, " ", "s", "t", "a", "t", "e", " ", "s", "t", "a", "t", "e",
      "_", "d", "e", "s", "c", "r", " ", "l", "i", "n", "e">>
TypesetLine == <<"t", "y", "p", "e", "s", "e", "t", " ", "-", "A", " ",
                 "o", "p", "t", "_", "a", "r", "g", "s">>

ValueError == <<"<ValueError>">>

\* 'commands' in command
IsGroup(command) == "commands" \in DOMAIN command

\* lines 83-89
OpeningLine(command, allow_interspersed_args) ==
    ArgumentsLine
        \o (IF ~allow_interspersed_args THEN RestrictFlag ELSE <<>>)
        \o (IF IsGroup(command) THEN GroupFlag ELSE <<>>)
        \o LineEnd

\* lines 141-146: one entry of the subcommand clause, or the IndexError of get_help
SubcommandEntry(name, subcommand) ==
    LET help == GetHelp(subcommand)
    IN  IF help = IndexError THEN IndexError
        ELSE IF help # None
        THEN Quote(name, FALSE, TRUE) \o <<BS, ":">> \o Quote(help, FALSE, TRUE)
        ELSE Quote(name, FALSE, TRUE)

\* lines 140-148: the two specs a command-group adds
SubcommandSpecs(command) ==
    LET subcommands == [c \in 1..Len(command.commands) |->
                           SubcommandEntry(command.commands[c].name,
                                           command.commands[c].command)]
    IN  IF \E c \in 1..Len(subcommands) : subcommands[c] = IndexError
        THEN IndexError
        ELSE << SubcommandOpen \o Join(<<" ">>, subcommands) \o SubcommandClose,
                CatchAllSpec >>

\* lines 150-151
JoinedSpecs(specs) ==
    [s \in 1..Len(specs) |->
        <<" ", " ">> \o specs[s] \o (IF s < Len(specs) THEN Continuation ELSE <<>>)]

\* lines 154-157
DispatchLines(arg_count) ==
    << <<>>,
       ServiceOpen \o Str(arg_count + 1) \o <<"]">>,
       CurcontextLine,
       CaseLine >>

\* line 160
CaseLabel(name) == <<" ", " ">> \o Quote(name, FALSE, FALSE) \o <<")">>

\* line 161: the lines of a subcommand, indented
Indented(sublines) == [l \in 1..Len(sublines) |-> <<" ", " ", " ", " ">> \o sublines[l]]

(* The frame of complete_command(command, allow_interspersed_args) on       *)
(* entry: p is the position of the for loop over params, c that of the      *)
(* loop over subcommands.                                                   *)
CalleeFrame(subcommand, allow_interspersed_args) ==
    [command |-> subcommand, allow_interspersed_args |-> allow_interspersed_args,
     lines |-> <<>>, specs |-> <<>>, arg_count |-> 0, has_variadic |-> FALSE,
     p |-> 1, c |-> 1, pc |-> "open"]

\* a plausible slip: the subcommand is rendered with the default, not the caller's value
SubcommandFrameDefault(caller, subcommand) == CalleeFrame(subcommand, TRUE)

\* line 161: the caller's allow_interspersed_args is handed on
SubcommandFrame(caller, subcommand) ==
    CalleeFrame(subcommand, caller.allow_interspersed_args)

Top == stack[Len(stack)]

SetTop(frame) == stack' = [stack EXCEPT ![Len(stack)] = frame]

Running == cpc = "running" /\ stack # <<>>

InParams == Running /\ Top.pc = "params" /\ Top.p <= Len(Top.command.params)

Param == Top.command.params[Top.p]

\* an exception leaves every call
Raise(exception) ==
    /\ stack' = <<>>
    /\ raised' = exception
    /\ cpc' = "raised"
    /\ UNCHANGED <<info, lines, script>>

\* lines 62-73: the header, and the call for the root command
CompleteStart ==
    /\ cpc = "call"
    /\ lines' = << CompdefOpen \o info.command.name, <<>> >>
                   \o (IF IsGroup(info.command)
                       THEN << LocalLine, TypesetLine, <<>> >> ELSE <<>>)
    /\ stack' = << CalleeFrame(info.command, info.allow_interspersed_args) >>
    /\ cpc' = "running"
    /\ UNCHANGED <<info, script, raised>>

\* lines 81-93
OpenCommand ==
    /\ Running /\ Top.pc = "open"
    /\ SetTop([Top EXCEPT
                 !.lines = << OpeningLine(Top.command, Top.allow_interspersed_args) >>,
                 !.specs = <<>>, !.arg_count = 0, !.has_variadic = FALSE,
                 !.p = 1, !.pc = "params"])
    /\ UNCHANGED <<info, lines, script, raised, cpc>>

\* lines 95-121
Option ==
    /\ InParams /\ Param.param_type_name = "option"
    /\ LET spec == OptionSpec(Param)
       IN  IF spec = IndexError THEN Raise(IndexError)
           ELSE /\ SetTop([Top EXCEPT !.specs = Append(@, spec), !.p = @ + 1])
                /\ UNCHANGED <<info, lines, script, raised, cpc>>

\* lines 123-125
SkipArgument ==
    /\ InParams /\ Param.param_type_name = "argument"
    /\ Top.has_variadic
    /\ SetTop([Top EXCEPT !.p = @ + 1])
    /\ UNCHANGED <<info, lines, script, raised, cpc>>

\* a plausible slip: line 130 is missing, so has_variadic is never set
ArgumentForgetsVariadic ==
    /\ InParams /\ Param.param_type_name = "argument"
    /\ ~Top.has_variadic
    /\ SetTop([Top EXCEPT
                 !.arg_count = @ + 1,
                 !.specs = @ \o ArgumentSpecs(Param),
                 !.p = @ + 1])
    /\ UNCHANGED <<info, lines, script, raised, cpc>>

\* lines 123-134
Argument ==
    /\ InParams /\ Param.param_type_name = "argument"
    /\ ~Top.has_variadic
    /\ SetTop([Top EXCEPT
                 !.arg_count = @ + 1,
                 !.has_variadic = (Param.nargs = -1),
                 !.specs = @ \o ArgumentSpecs(Param),
                 !.p = @ + 1])
    /\ UNCHANGED <<info, lines, script, raised, cpc>>

\* lines 136-137
UnexpectedParam ==
    /\ InParams /\ Param.param_type_name \notin {"option", "argument"}
    /\ Raise(ValueError)

\* lines 139-148
Subcommands ==
    /\ Running /\ Top.pc = "params" /\ Top.p > Len(Top.command.params)
    /\ IsGroup(Top.command)
    /\ LET added == SubcommandSpecs(Top.command)
       IN  IF added = IndexError THEN Raise(IndexError)
           ELSE /\ SetTop([Top EXCEPT !.specs = @ \o added, !.pc = "join"])
                /\ UNCHANGED <<info, lines, script, raised, cpc>>

\* lines 150-151, and line 166 of a command without subcommands
JoinSpecs ==
    /\ Running
    /\ \/ Top.pc = "join"
       \/ Top.pc = "params" /\ Top.p > Len(Top.command.params) /\ ~IsGroup(Top.command)
    /\ IF Top.specs = <<>> THEN Raise(IndexError)
       ELSE /\ SetTop([Top EXCEPT
                         !.lines = @ \o JoinedSpecs(Top.specs),
                         !.pc = IF IsGroup(Top.command) THEN "dispatch" ELSE "return"])
            /\ UNCHANGED <<info, lines, script, raised, cpc>>

\* lines 153-157
Dispatch ==
    /\ Running /\ Top.pc = "dispatch"
    /\ SetTop([Top EXCEPT !.lines = @ \o DispatchLines(Top.arg_count),
                          !.c = 1, !.pc = "cases"])
    /\ UNCHANGED <<info, lines, script, raised, cpc>>

\* lines 159-161: the case label, and the call for the subcommand
CallSubcommand ==
    /\ Running /\ Top.pc = "cases" /\ Top.c <= Len(Top.command.commands)
    /\ LET item == Top.command.commands[Top.c]
       IN  stack' = Append([stack EXCEPT ![Len(stack)] =
                               [Top EXCEPT !.lines = Append(@, CaseLabel(item.name)),
                                           !.pc = "called"]],
                           SubcommandFrame(Top, item.command))
    /\ UNCHANGED <<info, lines, script, raised, cpc>>

\* lines 161-162: the subcommand's lines come back
SubcommandReturns ==
    /\ Running /\ Len(stack) > 1 /\ Top.pc = "return"
    /\ LET caller == stack[Len(stack) - 1]
       IN  stack' = [SubSeq(stack, 1, Len(stack) - 1) EXCEPT ![Len(stack) - 1] =
                        [caller EXCEPT !.lines = (@ \o Indented(Top.lines)) \o <<CaseEnd>>,
                                       !.c = @ + 1, !.pc = "cases"]]
    /\ UNCHANGED <<info, lines, script, raised, cpc>>

\* lines 164-166
Esac ==
    /\ Running /\ Top.pc = "cases" /\ Top.c > Len(Top.command.commands)
    /\ SetTop([Top EXCEPT !.lines = Append(@, EsacLine), !.pc = "return"])
    /\ UNCHANGED <<info, lines, script, raised, cpc>>

\* ''.join(f'{line}\n' for line in lines)
Text(ls) ==
    LET f[l \in 0..Len(ls)] == IF l = 0 THEN <<>> ELSE (f[l - 1] \o ls[l]) \o <<NL>>
    IN  f[Len(ls)]

\* lines 73-74: the root command's lines come back
CompleteFinish ==
    /\ Running /\ Len(stack) = 1 /\ Top.pc = "return"
    /\ lines' = lines \o Top.lines
    /\ script' = Text(lines')
    /\ stack' = <<>>
    /\ cpc' = "done"
    /\ UNCHANGED <<info, raised>>

----------------------------------------------------------------------------
(* The command trees handed to complete: the info dict of click's          *)
(* Context.to_info_dict(), with the keys the renderer reads.                *)

StringType == [param_type |-> "String", name |-> "text"]
BoolType == [param_type |-> "Bool", name |-> "boolean"]
FileType == [param_type |-> "File", name |-> "filename"]

\* the --help option click adds to every command
OptHelp ==
    [name |-> HelpName, param_type_name |-> "option",
     opts |-> << <<"-", "-", "h", "e", "l", "p">> >>, secondary_opts |-> <<>>,
     type |-> BoolType, nargs |-> 1, multiple |-> FALSE, default |-> <<"F",
                                                                       "a",
                                                                       "l",
                                                                       "s",
                                                                       "e">>,
     help |-> <<"S", "h", "o", "w", " ", "t", "h", "i", "s", " ", "m", "e",
                "s", "s", "a", "g", "e", " ", "a", "n", "d", " ", "e", "x",
                "i", "t", ".">>,
     is_flag |-> TRUE, count |-> FALSE]

\* click.option('-v', '--verbose', count=True, help='Increase verbosity.')
OptVerbose ==
    [name |-> <<"v", "e", "r", "b", "o", "s", "e">>, param_type_name |-> "option",
     opts |-> << <<"-", "v">>, <<"-", "-", "v", "e", "r", "b", "o", "s", "e">> >>, secondary_opts |-> <<>>,
     type |-> [param_type |-> "IntRange", name |-> "integer range",
               min |-> <<0>>, max |-> <<>>, min_open |-> FALSE, max_open |-> FALSE],
     nargs |-> 1, multiple |-> FALSE, default |-> <<"0">>,
     help |-> <<"I", "n", "c", "r", "e", "a", "s", "e", " ", "v", "e", "r",
                "b", "o", "s", "i", "t", "y", ".">>,
     is_flag |-> FALSE, count |-> TRUE]

\* click.option('+w/-w')
OptPlusW ==
    [name |-> <<"w">>, param_type_name |-> "option",
     opts |-> << <<"+", "w">> >>, secondary_opts |-> << <<"-", "w">> >>,
     type |-> BoolType, nargs |-> 1, multiple |-> FALSE, default |-> <<"F",
                                                                       "a",
                                                                       "l",
                                                                       "s",
                                                                       "e">>,
     help |-> None,
     is_flag |-> TRUE, count |-> FALSE]

\* click.option('--test', help='suite [default: x]')
OptTest ==
    [name |-> <<"t", "e", "s", "t">>, param_type_name |-> "option",
     opts |-> << <<"-", "-", "t", "e", "s", "t">> >>, secondary_opts |-> <<>>,
     type |-> StringType, nargs |-> 1, multiple |-> FALSE, default |-> None,
     help |-> <<"s", "u", "i", "t", "e", " ", "[", "d", "e", "f", "a", "u",
                "l", "t", ":", " ", "x", "]">>,
     is_flag |-> FALSE, count |-> FALSE]

\* click.option('--pair', type=(str, (bool, click.FloatRange(min=1))), default=...)
OptPair ==
    [name |-> <<"p", "a", "i", "r">>, param_type_name |-> "option",
     opts |-> << <<"-", "-", "p", "a", "i", "r">> >>, secondary_opts |-> <<>>,
     type |-> [param_type |-> "Tuple", name |-> "<text tuple>",
               types |-> << StringType,
                            [param_type |-> "Tuple", name |-> "<boolean float range>",
                             types |-> << BoolType,
                                          [param_type |-> "FloatRange",
                                           name |-> "float range",
                                           min |-> <<1>>, max |-> <<>>,
                                           min_open |-> TRUE, max_open |-> FALSE] >>] >>],
     nargs |-> 2, multiple |-> FALSE, default |-> <<"d">>,
     help |-> None,
     is_flag |-> FALSE, count |-> FALSE]

\* click.option('-m', 'mode_', type=click.Choice(['a b', "it's"]), nargs=2, multiple=True)
OptMode ==
    [name |-> <<"m", "o", "d", "e", "_">>, param_type_name |-> "option",
     opts |-> << <<"-", "m">> >>, secondary_opts |-> <<>>,
     type |-> [param_type |-> "Choice", name |-> "choice",
               choices |-> << <<"a", " ", "b">>, <<"i", "t", SQ, "s">> >>],
     nargs |-> 2, multiple |-> TRUE, default |-> <<"a", " ", "b">>,
     help |-> <<"P", "i", "c", "k", ".">>,
     is_flag |-> FALSE, count |-> FALSE]

\* click.argument('arg')
ArgOne ==
    [name |-> <<"a", "r", "g">>, param_type_name |-> "argument",
     type |-> StringType, nargs |-> 1, default |-> None]

\* click.argument('dir', nargs=2, type=click.Path(file_okay=False))
ArgTwo ==
    [name |-> <<"d", "i", "r">>, param_type_name |-> "argument",
     type |-> [param_type |-> "Path", name |-> "directory",
               file_okay |-> FALSE, dir_okay |-> TRUE],
     nargs |-> 2, default |-> None]

\* click.argument('src', nargs=-1, type=click.File('r'))
ArgVariadic ==
    [name |-> <<"s", "r", "c">>, param_type_name |-> "argument",
     type |-> FileType, nargs |-> -1, default |-> None]

\* click.argument('n', type=click.IntRange(0, 9, min_open=True), default=5)
ArgRange ==
    [name |-> <<"n">>, param_type_name |-> "argument",
     type |-> [param_type |-> "IntRange", name |-> "integer range",
               min |-> <<0>>, max |-> <<9>>, min_open |-> TRUE, max_open |-> FALSE],
     nargs |-> 1, default |-> <<"5">>]

\* a parameter that is neither a click.Option nor a click.Argument
PlainParameter ==
    [name |-> <<"x">>, param_type_name |-> "parameter",
     type |-> StringType, nargs |-> 1, default |-> None]

ParamPool ==
    {OptHelp, OptVerbose, OptPlusW, OptTest, OptPair, OptMode,
     ArgOne, ArgTwo, ArgVariadic, ArgRange, PlainParameter}

RECURSIVE SeqsUpTo(_, _)
SeqsUpTo(S, n) ==
    IF n = 0 THEN {<<>>}
    ELSE LET shorter == SeqsUpTo(S, n - 1)
         IN  shorter \cup {Append(s, x) : s \in {t \in shorter : Len(t) = n - 1}, x \in S}

\* a command without subcommands
Leaf(name, help, params) ==
    [name |-> name, help |-> help, short_help |-> None, params |-> params]

\* a click.Group; commands is the mapping in its order, as (name, command) items
Group(name, help, params, commands) ==
    [name |-> name, help |-> help, short_help |-> None, params |-> params,
     commands |-> commands]

Item(command) == [name |-> command.name, command |-> command]

\* two plain subcommands, one documented
PlainCommands ==
    << Item(Leaf(<<"b", "a", "r">>, None, <<OptHelp>>)),
       Item(Leaf(<<"f", "o", "o">>, <<"F", "o", "o", " ", "s", "u", "b", "c", "o",
                             "m", "m", "a", "n", "d", " ", "h", "e", "l",
                             "p", ".">>, <<ArgOne, OptHelp>>)) >>

\* names and help texts with a colon, an apostrophe, brackets
SpecialCommands ==
    << Item(Leaf(<<"a", ":", "b">>, None, <<OptHelp>>)),
       Item(Leaf(<<"i", "t", SQ, "s">>, <<"N", "o", "t", "e", ":", " ", "s", "e", "e",
                              " ", "[", "x", "]", ".">>, <<OptHelp>>)) >>

\* a group below the root
NestedCommands ==
    << Item(Group(<<"s", "u", "b">>, <<"S", "u", "b", ".">>, <<ArgTwo, OptPlusW>>,
                  << Item(Leaf(<<"l", "e", "a", "f">>, None, <<ArgVariadic, ArgOne>>)) >>)) >>

CommandMaps == {PlainCommands, SpecialCommands, NestedCommands}

RootName == <<"c", "l", "i">>

RootCommands(params) ==
    {Leaf(RootName, None, params)}
        \cup {Group(RootName, None, params, commands) : commands \in CommandMaps}

CompleteInit ==
    /\ info \in {[command |-> command, allow_interspersed_args |-> allow] :
                    command \in UNION {RootCommands(params) :
                                          params \in SeqsUpTo(ParamPool, MaxParams)},
                    allow \in BOOLEAN}
    /\ stack = <<>>
    /\ lines = <<>>
    /\ script = None
    /\ raised = None
    /\ cpc = "call"

----------------------------------------------------------------------------
(* find_param_type.  The click objects are numbered: command 1 is the      *)
(* root, tree.children[n] is list_commands of command n in its order, with  *)
(* 0 for a name get_command finds no command for, tree.multi holds the      *)
(* MultiCommands, tree.params[n] the types of get_params of command n.  A   *)
(* ParamType is its name and its identity (where it is declared); a type    *)
(* name is only compared, so it is an atom.  An Optional[ParamType] is the  *)
(* empty sequence for None and a one-element sequence for a type.           *)

TypeNames == {"text", "test"}

LookedUp == TypeNames \cup {"bool"}

\* a group holding a group and a command, a flat group, a group with a
\* missing command, a plain command, a chain of groups
Skeletons ==
    { [children |-> << <<2, 4>>, <<3>>, <<>>, <<>> >>, multi |-> {1, 2}],
      [children |-> << <<2, 3, 4>>, <<>>, <<>>, <<>> >>, multi |-> {1}],
      [children |-> << <<0, 2>>, <<3, 4>>, <<>>, <<>> >>, multi |-> {1, 2}],
      [children |-> << <<>>, <<>>, <<>>, <<>> >>, multi |-> {}],
      [children |-> << <<2>>, <<3>>, <<4>>, <<>> >>, multi |-> {1, 2, 3, 4}] }

\* the types of a command's parameters, each its own object
Declared(n, names) == [i \in 1..Len(names) |-> [name |-> names[i], at |-> <<n, i>>]]

FindInit ==
    /\ \E k \in Skeletons :
       \E names \in [1..Len(k.children) -> SeqsUpTo(TypeNames, FMaxParams)] :
           tree = [children |-> k.children, multi |-> k.multi,
                   params |-> [n \in 1..Len(k.children) |-> Declared(n, names[n])]]
    /\ fname \in LookedUp
    /\ fstack = <<>>
    /\ fresult = <<>>
    /\ fpc = "call"

FindFrame(command) == [command |-> command, p |-> 1, c |-> 1, pc |-> "params"]

FTop == fstack[Len(fstack)]

SetFTop(frame) == fstack' = [fstack EXCEPT ![Len(fstack)] = frame]

Searching == fpc = "running" /\ fstack # <<>>

\* return result: the frame is left, and the lookup is over when it was the first
Return(result) ==
    /\ fresult' = result
    /\ IF Len(fstack) = 1
       THEN fstack' = <<>> /\ fpc' = "done"
       ELSE /\ fstack' = [SubSeq(fstack, 1, Len(fstack) - 1) EXCEPT ![Len(fstack) - 1] =
                             [fstack[Len(fstack) - 1] EXCEPT !.pc = "returned"]]
            /\ fpc' = fpc
    /\ UNCHANGED <<tree, fname>>

\* find_param_type(name, ctx, ctx.command) is called
FindStart ==
    /\ fpc = "call"
    /\ fstack' = <<FindFrame(1)>>
    /\ fpc' = "running"
    /\ UNCHANGED <<tree, fname, fresult>>

\* lines 226-228
ParamMatches ==
    /\ Searching /\ FTop.pc = "params" /\ FTop.p <= Len(tree.params[FTop.command])
    /\ tree.params[FTop.command][FTop.p].name = fname
    /\ Return(<<tree.params[FTop.command][FTop.p]>>)

\* lines 226-227
ParamDiffers ==
    /\ Searching /\ FTop.pc = "params" /\ FTop.p <= Len(tree.params[FTop.command])
    /\ tree.params[FTop.command][FTop.p].name # fname
    /\ SetFTop([FTop EXCEPT !.p = @ + 1])
    /\ UNCHANGED <<tree, fname, fresult, fpc>>

\* lines 230-231
EnterSubcommands ==
    /\ Searching /\ FTop.pc = "params" /\ FTop.p > Len(tree.params[FTop.command])
    /\ FTop.command \in tree.multi
    /\ SetFTop([FTop EXCEPT !.c = 1, !.pc = "commands"])
    /\ UNCHANGED <<tree, fname, fresult, fpc>>

\* lines 232-234
SkipMissingCommand ==
    /\ Searching /\ FTop.pc = "commands" /\ FTop.c <= Len(tree.children[FTop.command])
    /\ tree.children[FTop.command][FTop.c] = 0
    /\ SetFTop([FTop EXCEPT !.c = @ + 1])
    /\ UNCHANGED <<tree, fname, fresult, fpc>>

\* lines 232-235
SearchSubcommand ==
    /\ Searching /\ FTop.pc = "commands" /\ FTop.c <= Len(tree.children[FTop.command])
    /\ tree.children[FTop.command][FTop.c] # 0
    /\ fstack' = Append([fstack EXCEPT ![Len(fstack)] = [FTop EXCEPT !.pc = "called"]],
                        FindFrame(tree.children[FTop.command][FTop.c]))
    /\ UNCHANGED <<tree, fname, fresult, fpc>>

\* a plausible slip: the subcommand's result is returned without looking at it
IsFoundAlways(result) == TRUE

\* line 236
IsFound(result) == result # <<>>

\* lines 236-237
ReturnFound ==
    /\ Searching /\ FTop.pc = "returned"
    /\ IsFound(fresult)
    /\ Return(fresult)

\* line 236, and on to the next subcommand
NextSubcommand ==
    /\ Searching /\ FTop.pc = "returned"
    /\ ~IsFound(fresult)
    /\ SetFTop([FTop EXCEPT !.c = @ + 1, !.pc = "commands"])
    /\ UNCHANGED <<tree, fname, fresult, fpc>>

\* line 239
ReturnNone ==
    /\ Searching
    /\ \/ /\ FTop.pc = "params" /\ FTop.p > Len(tree.params[FTop.command])
          /\ FTop.command \notin tree.multi
       \/ FTop.pc = "commands" /\ FTop.c > Len(tree.children[FTop.command])
    /\ Return(<<>>)

----------------------------------------------------------------------------
(* The specifications: one per entry point, the others idle. *)

CompleteIdle ==
    /\ info = <<>> /\ stack = <<>> /\ lines = <<>> /\ script = None /\ raised = None
    /\ cpc = "idle"

FindIdle ==
    /\ tree = <<>> /\ fname = "" /\ fstack = <<>> /\ fresult = <<>> /\ fpc = "idle"

QuoteNext ==
    \/ QuoteCall /\ UNCHANGED <<hvars, cvars, fvars>>
    \/ ShellRead /\ UNCHANGED <<hvars, cvars, fvars>>

InitQuote == QuoteInit /\ HelpIdle /\ CompleteIdle /\ FindIdle

SpecQuote == InitQuote /\ [][QuoteNext]_vars

HelpNext == GetHelpCall /\ UNCHANGED <<qvars, cvars, fvars>>

InitHelp == HelpInit /\ QuoteIdle /\ CompleteIdle /\ FindIdle

SpecHelp == InitHelp /\ [][HelpNext]_vars

CompleteNext ==
    \/ CompleteStart /\ UNCHANGED <<qvars, hvars, fvars>>
    \/ OpenCommand /\ UNCHANGED <<qvars, hvars, fvars>>
    \/ Option /\ UNCHANGED <<qvars, hvars, fvars>>
    \/ SkipArgument /\ UNCHANGED <<qvars, hvars, fvars>>
    \/ Argument /\ UNCHANGED <<qvars, hvars, fvars>>
    \/ UnexpectedParam /\ UNCHANGED <<qvars, hvars, fvars>>
    \/ Subcommands /\ UNCHANGED <<qvars, hvars, fvars>>
    \/ JoinSpecs /\ UNCHANGED <<qvars, hvars, fvars>>
    \/ Dispatch /\ UNCHANGED <<qvars, hvars, fvars>>
    \/ CallSubcommand /\ UNCHANGED <<qvars, hvars, fvars>>
    \/ SubcommandReturns /\ UNCHANGED <<qvars, hvars, fvars>>
    \/ Esac /\ UNCHANGED <<qvars, hvars, fvars>>
    \/ CompleteFinish /\ UNCHANGED <<qvars, hvars, fvars>>

InitComplete == CompleteInit /\ QuoteIdle /\ HelpIdle /\ FindIdle

SpecComplete == InitComplete /\ [][CompleteNext]_vars

FindNext ==
    \/ FindStart /\ UNCHANGED <<qvars, hvars, cvars>>
    \/ ParamMatches /\ UNCHANGED <<qvars, hvars, cvars>>
    \/ ParamDiffers /\ UNCHANGED <<qvars, hvars, cvars>>
    \/ EnterSubcommands /\ UNCHANGED <<qvars, hvars, cvars>>
    \/ SkipMissingCommand /\ UNCHANGED <<qvars, hvars, cvars>>
    \/ SearchSubcommand /\ UNCHANGED <<qvars, hvars, cvars>>
    \/ ReturnFound /\ UNCHANGED <<qvars, hvars, cvars>>
    \/ NextSubcommand /\ UNCHANGED <<qvars, hvars, cvars>>
    \/ ReturnNone /\ UNCHANGED <<qvars, hvars, cvars>>

InitFind == FindInit /\ QuoteIdle /\ HelpIdle /\ CompleteIdle

SpecFind == InitFind /\ [][FindNext]_vars

----------------------------------------------------------------------------
\* the characters the round trip is claimed for
ClaimAlphabet == WordChars \cup {" ", SQ, DQ, BS, "$", BQ, "!"}

(* C1: with embed false, reading quote(s) back under the dialect's rules    *)
(* gives s again, for every s over letters, digits, _ + - space and         *)
(* apostrophe, double quote, backslash, dollar, backquote and bang; and a   *)
(* word of [A-Za-z0-9_+-] only is returned unchanged.                       *)
QuoteRoundTrip ==
    /\ (qpc = "read" /\ ~embed /\ Range(value) \subseteq ClaimAlphabet) => reparsed = value
    /\ (qpc \in {"returned", "read"} /\ ~embed /\ Range(value) \subseteq WordChars)
            => quoted = value

QuoteRoundTripWitness ==
    /\ qpc = "read" /\ ~embed /\ double
    /\ BS \in Range(value) /\ DQ \in Range(value) /\ Len(value) = MaxLen
    /\ quoted # value
    /\ reparsed = value

----------------------------------------------------------------------------
(* C8 as stated: for a parameter named help, get_help returns 'display      *)
(* usage information' whatever its help and short_help fields are.          *)
HelpAlwaysUsage ==
    (hpc # "call" /\ hpc # "idle" /\ hparam.name = HelpName) => hresult = HelpUsage

(* C8 as the code has it: for a parameter named help, get_help returns      *)
(* 'display usage information' whenever short_help or help is present, and  *)
(* nothing when both are absent.                                            *)
HelpUsageWhenDocumented ==
    (hpc # "call" /\ hpc # "idle" /\ hparam.name = HelpName) =>
        IF Get(hparam, "short_help") = None /\ Get(hparam, "help") = None
        THEN hresult = None
        ELSE hresult = HelpUsage

HelpUsageWitness ==
    /\ hpc = "returned" /\ hparam.name = HelpName
    /\ Get(hparam, "short_help") = None
    /\ Get(hparam, "help") # None /\ Get(hparam, "help") # <<>>
    /\ hresult = HelpUsage

----------------------------------------------------------------------------
(* Reading the rendered specs back. *)

StartsWith(s, prefix) ==
    Len(prefix) <= Len(s) /\ SubSeq(s, 1, Len(prefix)) = prefix

\* the places where sub occurs in s
Occurrences(s, sub) ==
    {i \in 1..(Len(s) - Len(sub) + 1) : SubSeq(s, i, i + Len(sub) - 1) = sub}

Contains(s, sub) == Occurrences(s, sub) # {}

Count(s, c) == Cardinality({i \in 1..Len(s) : s[i] = c})

Min(S) == CHOOSE x \in S : \A y \in S : x <= y

\* a spec that names a positional slot: ':message:action' or '*:message:action'
IsPositional(spec) ==
    StartsWith(spec, <<SQ, ":">>) \/ StartsWith(spec, <<SQ, "*", ":">>)

IsVariadicSpec(spec) == StartsWith(spec, <<SQ, "*", ":">>)

Frames == {stack[f] : f \in 1..Len(stack)}

\* the frames whose block of specs is complete
Dispatching == {f \in Frames : IsGroup(f.command) /\ f.pc \in {"cases", "called", "return"}}

----------------------------------------------------------------------------
(* C2: in every command-group, the k of the line 'service=$line[k]' is one  *)
(* more than the number of positional specs emitted for the node's          *)
(* arguments (N for an argument of arity N, one for a variadic one): the    *)
(* place of the ':subcommand:' clause among the positional specs.           *)
ArgumentSlots(f) ==
    Cardinality({s \in 1..(Len(f.specs) - 2) : IsPositional(f.specs[s])})

\* C2: every command-group has a service line, and its index is ArgumentSlots + 1
ServiceIndexIsSubcommandSlot ==
    \A f \in Dispatching :
        /\ \E l \in 1..Len(f.lines) : StartsWith(f.lines[l], ServiceOpen)
        /\ \A l \in 1..Len(f.lines) :
              StartsWith(f.lines[l], ServiceOpen) =>
                  f.lines[l] = (ServiceOpen \o Str(ArgumentSlots(f) + 1)) \o <<"]">>

----------------------------------------------------------------------------
(* C3: once a variadic argument has been processed at a level, the          *)
(* arguments declared after it add no spec and do not change the            *)
(* positional count; the variadic argument adds exactly one spec, prefixed  *)
(* with '*'; options declared after it are still emitted.                   *)
Processed(f) == 1..(f.p - 1)

Variadics(f) ==
    {a \in Processed(f) : /\ f.command.params[a].param_type_name = "argument"
                          /\ f.command.params[a].nargs = -1}

\* the arguments up to the first variadic one, each with its slots
SlotsUpTo(f, v) ==
    UNION {{<<a, n>> : n \in 1..(IF a = v THEN 1 ELSE f.command.params[a].nargs)} :
              a \in {a \in Processed(f) :
                        a <= v /\ f.command.params[a].param_type_name = "argument"}}

(* C3: after the first variadic argument the positional specs are those of  *)
(* the arguments up to it, the variadic one is the one starred spec and the *)
(* last positional one, every option has its spec, and arg_count counts the *)
(* arguments up to it.                                                      *)
VariadicSuppressesLaterArguments ==
    \A f \in Frames :
        (f.pc = "params" /\ Variadics(f) # {}) =>
            LET v == Min(Variadics(f))
                positional == {s \in 1..Len(f.specs) : IsPositional(f.specs[s])}
                options == {o \in Processed(f) :
                               f.command.params[o].param_type_name = "option"}
            IN  /\ Cardinality(positional) = Cardinality(SlotsUpTo(f, v))
                /\ Cardinality({s \in positional : IsVariadicSpec(f.specs[s])}) = 1
                /\ \A s \in positional : IsVariadicSpec(f.specs[s]) <=>
                                             \A t \in positional : t <= s
                /\ Cardinality((1..Len(f.specs)) \ positional) = Cardinality(options)
                /\ f.arg_count =
                     Cardinality({a \in Processed(f) :
                                     /\ a <= v
                                     /\ f.command.params[a].param_type_name = "argument"})

VariadicSuppressesWitness ==
    \E f \in Frames :
        /\ f.pc = "params" /\ f.p = 3
        /\ f.command.params[1].param_type_name = "argument"
        /\ f.command.params[1].nargs = -1
        /\ f.command.params[2].param_type_name = "argument"
        /\ Len(f.specs) = 1
        /\ f.arg_count = 1

----------------------------------------------------------------------------
(* C4: an option that is neither flag nor counter carries, for a Tuple      *)
(* type, as many value fragments as the tuple has flattened element types,  *)
(* whatever its nargs, and for any other type nargs of them; a flag or      *)
(* counter carries none; the elements of a tuple are built without default. *)
RECURSIVE Elements(_)
Elements(type) ==
    IF type.param_type = "Tuple"
    THEN UNION {{<<e>> \o rest : rest \in Elements(type.types[e])} : e \in 1..Len(type.types)}
    ELSE {<<>>}

\* the frames that have just rendered an option, with that option's spec
JustRendered ==
    {f \in Frames : /\ f.pc = "params" /\ f.p > 1
                    /\ f.command.params[f.p - 1].param_type_name = "option"}

\* a value fragment is :message:action; the pool's names hold no colon
ValuePart(f) ==
    LET option == f.command.params[f.p - 1]
        spec == f.specs[Len(f.specs)]
        head == (<<SQ>> \o OptionNames(option)) \o OptionHelp(GetHelp(option))
    IN  IF StartsWith(spec, head) /\ spec[Len(spec)] = SQ
        THEN SubSeq(spec, Len(head) + 1, Len(spec) - 1)
        ELSE Malformed

Fragments(values) == Count(values, ":") \div 2

(* C4: a just rendered option has no value part when it is a flag or a      *)
(* counter, one fragment per flattened element and no default when it is a  *)
(* Tuple, and nargs fragments otherwise.                                    *)
OptionValueFragments ==
    \A f \in JustRendered :
        LET option == f.command.params[f.p - 1]
            values == ValuePart(f)
        IN  /\ values # Malformed
            /\ Count(values, ":") % 2 = 0
            /\ IF option.is_flag \/ option.count THEN values = <<>>
               ELSE IF option.type.param_type = "Tuple"
               THEN /\ Fragments(values) = Cardinality(Elements(option.type))
                    /\ option.default # None =>
                          /\ ~Contains(values, (<<"[">> \o option.default) \o <<"]">>)
                          /\ ~Contains(values, DefaultFlag \o option.default)
               ELSE Fragments(values) = option.nargs

OptionValueFragmentsWitness ==
    \E f \in JustRendered :
        LET option == f.command.params[f.p - 1]
        IN  /\ option.type.param_type = "Tuple"
            /\ option.default # None
            /\ Cardinality(Elements(option.type)) > option.nargs
            /\ Fragments(ValuePart(f)) = Cardinality(Elements(option.type))

----------------------------------------------------------------------------
(* C5: inside the double parentheses of the ':subcommand:((...))' clause    *)
(* every colon is backslash-escaped: the one joining a name to its help,    *)
(* and every colon of a name or of a help text.                             *)
SubcommandClause(f) == f.specs[Len(f.specs) - 1]

Enumerated(f) ==
    SubSeq(SubcommandClause(f), Len(SubcommandOpen) + 1,
           Len(SubcommandClause(f)) - Len(SubcommandClose))

\* C5: every colon between the double parentheses follows a backslash
SubcommandColonsEscaped ==
    \A f \in Dispatching :
        /\ StartsWith(SubcommandClause(f), SubcommandOpen)
        /\ \A i \in 1..Len(Enumerated(f)) :
              Enumerated(f)[i] = ":" => (i > 1 /\ Enumerated(f)[i - 1] = BS)

----------------------------------------------------------------------------
(* C6: in the bracket annotation of an option with help text every [ and ]  *)
(* of the help text is backslash-escaped, so that the annotation runs from  *)
(* the spec's first [ to its first unescaped ] and reads as the help text.  *)
Unescaped(s, c) == {i \in 1..Len(s) : s[i] = c /\ (i = 1 \/ s[i - 1] # BS)}

\* \[ and \] read back as [ and ]
UnescapeBrackets(s) ==
    LET f[i \in 0..Len(s)] ==
            IF i = 0 THEN <<>>
            ELSE IF s[i] = BS /\ i < Len(s) /\ s[i + 1] \in {"[", "]"} THEN f[i - 1]
            ELSE Append(f[i - 1], s[i])
    IN  f[Len(s)]

\* the explanation zsh takes from an option spec
Annotation(spec) ==
    IF Unescaped(spec, "[") = {} \/ Unescaped(spec, "]") = {} THEN Malformed
    ELSE UnescapeBrackets(SubSeq(spec, Min(Unescaped(spec, "[")) + 1,
                                 Min(Unescaped(spec, "]")) - 1))

\* C6: the annotation zsh reads from an option's spec is the option's help text
OptionHelpBracketsEscaped ==
    \A f \in JustRendered :
        LET help == GetHelp(f.command.params[f.p - 1])
        IN  help # None => Annotation(f.specs[Len(f.specs)]) = Quote(help, TRUE, FALSE)

----------------------------------------------------------------------------
(* C7: when interspersed parsing is disallowed, the pattern given to -A on  *)
(* the opening line matches the leading character of every invocation       *)
(* string of the command's options ('[+-]*' for +w/-w, not '-*').           *)
RestrictOpen == <<" ", "-", "A", " ", SQ>>

\* the pattern between the apostrophes after -A
RestrictPattern(line) ==
    LET from == Min(Occurrences(line, RestrictOpen)) + Len(RestrictOpen)
        to == Min({i \in from..Len(line) : line[i] = SQ})
    IN  SubSeq(line, from, to - 1)

\* zsh pattern matching, for literal characters, [...] classes without ranges, and *
RECURSIVE GlobMatch(_, _)
GlobMatch(pattern, s) ==
    IF pattern = <<>> THEN s = <<>>
    ELSE IF pattern[1] = "*" THEN
        \E k \in 0..Len(s) : GlobMatch(Tail(pattern), SubSeq(s, k + 1, Len(s)))
    ELSE IF pattern[1] = "[" /\ \E j \in 3..Len(pattern) : pattern[j] = "]" THEN
        LET close == Min({j \in 3..Len(pattern) : pattern[j] = "]"})
        IN  /\ s # <<>>
            /\ s[1] \in {pattern[j] : j \in 2..(close - 1)}
            /\ GlobMatch(SubSeq(pattern, close + 1, Len(pattern)), Tail(s))
    ELSE s # <<>> /\ s[1] = pattern[1] /\ GlobMatch(Tail(pattern), Tail(s))

OptionStrings(command) ==
    UNION {Range(command.params[o].opts \o command.params[o].secondary_opts) :
              o \in {o \in 1..Len(command.params) :
                        command.params[o].param_type_name = "option"}}

\* C7: without interspersed arguments, the -A pattern matches every option string
RestrictPatternCoversOptions ==
    \A f \in Frames :
        (f.pc # "open" /\ ~f.allow_interspersed_args) =>
            /\ Contains(f.lines[1], RestrictOpen)
            /\ \A opt \in OptionStrings(f.command) :
                  GlobMatch(RestrictPattern(f.lines[1]), opt)

----------------------------------------------------------------------------
(* C10: the -A flag is on the '_arguments' line of every command of the     *)
(* tree, at any depth, exactly when the root's allow_interspersed_args is   *)
(* false; the -C flag is on a command's line exactly when that command      *)
(* has a subcommand mapping.                                                *)
RECURSIVE NodeCount(_)
NodeCount(command) ==
    IF IsGroup(command)
    THEN LET n[c \in 0..Len(command.commands)] ==
                 IF c = 0 THEN 1 ELSE n[c - 1] + NodeCount(command.commands[c].command)
         IN  n[Len(command.commands)]
    ELSE 1

HasRestrictFlag(line) == Contains(line, <<" ", "-", "A", " ">>)
HasGroupFlag(line) == Contains(line, <<" ", "-", "C", " ">>)

OpeningLines(ls) == {l \in 1..Len(ls) : Contains(ls[l], ArgumentsLine)}

(* C10: each frame's opening line, and each opening line of the finished    *)
(* script, has -A exactly when the root's allow_interspersed_args is false, *)
(* and -C exactly when its command is a group.                              *)
RestrictFlagFollowsRoot ==
    /\ \A f \in Frames :
          f.pc # "open" =>
              /\ StartsWith(f.lines[1], ArgumentsLine)
              /\ HasRestrictFlag(f.lines[1]) <=> ~info.allow_interspersed_args
              /\ HasGroupFlag(f.lines[1]) <=> IsGroup(f.command)
              /\ \A l \in 2..Len(f.lines) : ~StartsWith(f.lines[l], ArgumentsLine)
    /\ cpc = "done" =>
          /\ Cardinality(OpeningLines(lines)) = NodeCount(info.command)
          /\ \A l \in OpeningLines(lines) :
                HasRestrictFlag(lines[l]) <=> ~info.allow_interspersed_args

RestrictFlagWitness ==
    /\ cpc = "done"
    /\ ~info.allow_interspersed_args
    /\ NodeCount(info.command) = 3
    /\ \E l \in OpeningLines(lines) :
          /\ StartsWith(lines[l], <<" ", " ", " ", " ", " ", " ", " ", " ", "_">>)
          /\ HasRestrictFlag(lines[l])
          /\ ~HasGroupFlag(lines[l])

----------------------------------------------------------------------------
(* C9: find_param_type returns the type of the first parameter, in          *)
(* pre-order (a command's parameters in declared order, then its            *)
(* subcommands in listed order, each subtree wholly before the next),       *)
(* whose type name equals name; and nothing exactly when no parameter of    *)
(* the tree has a type of that name.                                        *)
RECURSIVE PreOrder(_)
PreOrder(n) ==
    LET below[c \in 0..Len(tree.children[n])] ==
            IF c = 0 THEN <<>>
            ELSE IF tree.children[n][c] = 0 THEN below[c - 1]
            ELSE below[c - 1] \o PreOrder(tree.children[n][c])
    IN  tree.params[n]
            \o (IF n \in tree.multi THEN below[Len(tree.children[n])] ELSE <<>>)

\* the commands of the tree: the root and what a MultiCommand of the tree lists
RECURSIVE Within(_, _)
Within(nodes, rounds) ==
    IF rounds = 0 THEN nodes
    ELSE Within(nodes \cup UNION {Range(tree.children[n]) \ {0} : n \in nodes \cap tree.multi},
                rounds - 1)

Commands == Within({1}, Len(tree.children))

FirstInPreOrder ==
    LET order == PreOrder(1)
        hits == {i \in 1..Len(order) : order[i].name = fname}
    IN  IF hits = {} THEN <<>> ELSE <<order[Min(hits)]>>

----------------------------------------------------------------------------
(* C11: on a command tree whose parameters are all options or arguments,    *)
(* a leaf with an empty params sequence included, complete_command returns  *)
(* its lines and never raises; the result has one '_arguments' line per     *)
(* command of the tree, and in each block every spec line but the last      *)
(* ends with the continuation marker.                                       *)
RECURSIVE WellFormed(_)
WellFormed(command) ==
    /\ \A p \in 1..Len(command.params) :
          command.params[p].param_type_name \in {"option", "argument"}
    /\ IsGroup(command) =>
          \A c \in 1..Len(command.commands) : WellFormed(command.commands[c].command)

EndsWith(s, suffix) ==
    Len(suffix) <= Len(s) /\ SubSeq(s, Len(s) - Len(suffix) + 1, Len(s)) = suffix

\* the frames whose specs are joined into lines
Joined == {f \in Frames : f.pc \in {"dispatch", "cases", "called", "return"}}

\* C11: a well-formed tree never raises, has one opening line per command, and
\* every line of a block but its last ends with the continuation marker
CompleteCommandTotal ==
    WellFormed(info.command) =>
        /\ cpc # "raised"
        /\ \A f \in Joined :
              /\ Len(f.specs) >= 1
              /\ \A l \in 1..Len(f.specs) : EndsWith(f.lines[l], Continuation)
              /\ ~EndsWith(f.lines[Len(f.specs) + 1], Continuation)
        /\ cpc = "done" => Cardinality(OpeningLines(lines)) = NodeCount(info.command)

----------------------------------------------------------------------------
(* C12: every spec is one well-formed sequence of single-quoted shell       *)
(* words: an apostrophe of a Choice value, a subcommand name or help text,  *)
(* a parameter name or a default value is in the spec only as the escape    *)
(* that leaves and re-enters the quote, never bare.                         *)
Max(S) == CHOOSE x \in S : \A y \in S : x >= y

EscapedApostrophe == <<SQ, BS, SQ, SQ>>

\* the apostrophes of a spec that are not part of an escape
BareApostrophes(spec) ==
    Count(spec, SQ) - 4 * Cardinality(Occurrences(spec, EscapedApostrophe))

\* the quotes the renderer itself writes: those around the spec, and those
\* around the brace group of an option with several names
OwnApostrophes(spec) == IF Contains(spec, <<SQ, "{">>) THEN 4 ELSE 2

\* the quoted word of a spec, without the command that follows the catch-all
QuotedWord(spec) ==
    IF spec = CatchAllSpec THEN SubSeq(spec, 1, Max({i \in 1..Len(spec) : spec[i] = SQ}))
    ELSE spec

\* where the shell is after one more character: outside quotes, inside single
\* or double quotes, behind a backslash, or past the end of the word
QuoteStep(before, c) ==
    IF before = "bare" THEN
        IF c = SQ THEN "single"
        ELSE IF c = DQ THEN "double"
        ELSE IF c = BS THEN "escape"
        ELSE IF c \in BareSpecials THEN "ended"
        ELSE "bare"
    ELSE IF before = "single" THEN
        IF c = SQ THEN "bare" ELSE "single"
    ELSE IF before = "double" THEN
        IF c = DQ THEN "bare"
        ELSE IF c = BS THEN "double escape"
        ELSE "double"
    ELSE IF before = "escape" THEN "bare"
    ELSE IF before = "double escape" THEN "double"
    ELSE "ended"

\* where the shell is after w[lo..hi], read half by half
RECURSIVE QuoteRun(_, _, _, _)
QuoteRun(w, lo, hi, before) ==
    IF lo > hi THEN before
    ELSE IF lo = hi THEN QuoteStep(before, w[lo])
    ELSE LET mid == (lo + hi) \div 2
             half == QuoteRun(w, lo, mid, before)
         IN  IF half = "ended" THEN "ended" ELSE QuoteRun(w, mid + 1, hi, half)

QuoteState(w) == QuoteRun(w, 1, Len(w), "bare")

\* C12: each spec reads as one shell word, and its only bare apostrophes are
\* the ones the renderer writes around it
SpecsStaySingleQuoted ==
    \A f \in Frames : \A s \in 1..Len(f.specs) :
        LET word == QuotedWord(f.specs[s])
        IN  /\ QuoteState(word) = "bare"
            /\ BareApostrophes(word) = OwnApostrophes(word)

====
